---- MODULE Spec2Model ----
(***************************************************************************)
(* ShuffleFeatures (feature_engine/selection/shuffle_features.py): a       *)
(* feature selector that trains one model, shuffles one feature at a time, *)
(* records the drift of the performance metric and drops features at       *)
(* transform time.  The object is modelled as a state machine with the     *)
(* operations __init__, fit and transform.  Real-valued metrics are kept   *)
(* as exact fractions [num, den] with den > 0.                             *)
(***************************************************************************)
EXTENDS Integers, Sequences, FiniteSets, TLC

VARIABLES exists, regression, cv, threshold, features_to_shuffle, estimator,
          scoring, features_performance_drifts_,
          ctor_args, fit_completed, perf, last, sh

inst == <<exists, regression, cv, threshold, features_to_shuffle, estimator,
          scoring, features_performance_drifts_>>
ghost == <<ctor_args, fit_completed, perf>>
vars == <<exists, regression, cv, threshold, features_to_shuffle, estimator,
          scoring, features_performance_drifts_,
          ctor_args, fit_completed, perf, last, sh>>

(* ---------------------------- bounds ----------------------------------- *)
\* number of rows of every dataframe and target vector
NRows == 2

Rows == 1..NRows

(* ------------------------- python values ------------------------------- *)
PyBool(v) == [type |-> "bool", b |-> v, i |-> 0]
PyInt(n) == [type |-> "int", b |-> FALSE, i |-> n]
IsBool(v) == v.type = "bool"

\* features_to_shuffle: None, a single name, or a list of column names
None == [kind |-> "none", names |-> <<>>]
Str(c) == [kind |-> "str", names |-> <<c>>]
List(s) == [kind |-> "list", names |-> s]

\* the missing value pandas fills in for labels that do not align
NaN == -1

Range(s) == {s[i] : i \in DOMAIN s}

(* --------------------------- dataframes -------------------------------- *)
Frame(cols, idx, dat) == [isdf |-> TRUE, columns |-> cols, index |-> idx, data |-> dat]
NotAFrame == [isdf |-> FALSE, columns |-> <<>>, index |-> <<>>, data |-> <<>>]

Cols == {"a", "b"}
ColumnLists == {<<"a">>, <<"b">>, <<"a", "b">>, <<"b", "a">>}

RangeIndex == [i \in Rows |-> i - 1]
ShiftedIndex == [i \in Rows |-> i]

Ramp == [i \in Rows |-> i - 1]
Const == [i \in Rows |-> 1]
Step == [i \in Rows |-> IF i = 1 THEN 0 ELSE 1]

\* dataframes passed to fit and transform
Frames == UNION {{Frame(c, ix, d) : ix \in {RangeIndex, ShiftedIndex},
                                       d \in [Range(c) -> {Ramp, Const}]} :
                 c \in ColumnLists}
Targets == {Step, Const}

Identity == [i \in Rows |-> i]
Rotation == [i \in Rows |-> (i % NRows) + 1]
\* row orders produced by sample(frac=1)
Orders == {Identity, Rotation}
AllOrders == {p \in [Rows -> Rows] : \A i, j \in Rows : p[i] = p[j] => i = j}

(* ---------------------- collaborators (helpers) ------------------------ *)
\* _define_variables: a single name becomes a one-element list
_define_variables(v) == IF v.kind = "str" THEN List(v.names) ELSE v

\* _is_dataframe raises TypeError unless X is a dataframe
_is_dataframe_raises(X) == ~X.isdf

\* _find_all_variables: all columns when unspecified, else the given names,
\* which must all be columns of X
_find_all_variables_raises(X, variables) ==
    variables.kind # "none" /\ ~(Range(variables.names) \subseteq Range(X.columns))
_find_all_variables(X, variables) ==
    IF variables.kind # "none" THEN variables ELSE List(X.columns)

\* check_is_fitted(self): some attribute ending in "_" has been assigned
check_is_fitted_raises(drifts) == ~drifts.set

(* ------------------------------ metrics -------------------------------- *)
RECURSIVE SumTo(_, _)
SumTo(f, k) == IF k = 0 THEN 0 ELSE f[k] + SumTo(f, k - 1)

Frac(n, d) == [num |-> n, den |-> d]
FracSub(x, z) == Frac(x.num * z.den - z.num * x.den, x.den * z.den)
FracEq(x, z) == x.num * z.den = z.num * x.den
FracLt(x, z) == x.num * z.den < z.num * x.den
FracGeInt(x, t) == x.num >= t * x.den
FracLeInt(x, t) == x.num <= t * x.den

mean_squared_error(y, pred) ==
    Frac(SumTo([i \in Rows |-> (y[i] - pred[i]) * (y[i] - pred[i])], NRows), NRows)

\* roc_auc_score raises ValueError when y holds a single class
roc_auc_score_raises(y) == Cardinality(Range(y)) < 2
roc_auc_score(y, pred) ==
    LET pos == {i \in Rows : y[i] = 1}
        neg == {i \in Rows : y[i] # 1}
        pairs == pos \X neg
        pt(p) == IF pred[p[1]] > pred[p[2]] THEN 2
                 ELSE IF pred[p[1]] = pred[p[2]] THEN 1 ELSE 0
        RECURSIVE Tot(_)
        Tot(S) == IF S = {} THEN 0
                  ELSE LET p == CHOOSE q \in S : TRUE IN pt(p) + Tot(S \ {p})
    IN Frac(Tot(pairs), 2 * Cardinality(pairs))

(* ------------------------------ the model ------------------------------ *)
\* The trained estimator is opaque; it is represented by the column its
\* predictions follow.  predict raises on missing values when the estimator
\* validates its input (strict), otherwise a missing value counts as 0.
predict_raises(F, strict) ==
    strict /\ \E c \in Range(F.columns) : \E i \in Rows : F.data[c][i] = NaN
predict(model, F) ==
    [i \in Rows |-> IF F.data[model][i] = NaN THEN 0 ELSE F.data[model][i]]

\* the metric selected by the regression flag
metric_raises(reg, y) == ~reg /\ roc_auc_score_raises(y)
metric(reg, y, pred) ==
    IF reg THEN mean_squared_error(y, pred) ELSE roc_auc_score(y, pred)

(* ------------------------------ shuffling ------------------------------ *)
\* X_shuffled[feature].sample(frac=1): the column's values in a random row order
sample(col, order) == [i \in Rows |-> col[order[i]]]

\* .reset_index(drop=True) relabels the sampled values 0..n-1; assigning the
\* series to the column aligns it on the row labels of X_shuffled
assign(idx, s) ==
    [i \in Rows |-> IF idx[i] \in 0..(NRows - 1) THEN s[idx[i] + 1] ELSE NaN]

Shuffle(X, feature, order) ==
    [X EXCEPT !.data[feature] = assign(X.index, sample(X.data[feature], order))]

(* ------------------------- fit: the feature loop ----------------------- *)
EmptyDict == [f \in {} |-> Frac(0, 1)]
\* variant: the dict is rebuilt at every iteration and keeps only the last key
Put_fresh(d, k, v) == [f \in {k} |-> v]

Put(d, k, v) == [f \in DOMAIN d \cup {k} |-> IF f = k THEN v ELSE d[f]]

\* variant: the difference taken the other way round
Drift_reversed(model_performance, shuffled_model_performance) ==
    FracSub(shuffled_model_performance, model_performance)

Drift(model_performance, shuffled_model_performance) ==
    FracSub(model_performance, shuffled_model_performance)

\* iterates features k..Len(fts); returns the dict built so far, the metric
\* values observed, and the error that stopped the loop ("ok" if none)
RECURSIVE FitLoop(_, _, _, _, _, _, _, _, _, _, _, _)
FitLoop(k, fts, X, y, model, orders, strict, reg, model_performance, truth, d, pf) ==
    IF k > Len(fts) THEN [drifts |-> d, perf |-> pf, outcome |-> "ok"]
    ELSE LET feature == fts[k]
             X_shuffled == Shuffle(X, feature, orders[feature])
         IN IF predict_raises(X_shuffled, strict)
            THEN [drifts |-> d, perf |-> pf, outcome |-> "predict_error"]
            ELSE IF metric_raises(reg, y)
            THEN [drifts |-> d, perf |-> pf, outcome |-> "metric_error"]
            ELSE LET shuffled_model_performance ==
                         metric(reg, y, predict(model, X_shuffled))
                     drift == Drift(model_performance, shuffled_model_performance)
                 IN FitLoop(k + 1, fts, X, y, model, orders, strict, reg,
                            model_performance, truth,
                            Put(d, feature, drift),
                            Put(pf, feature, [base |-> truth,
                                              shuf |-> shuffled_model_performance]))

(* ------------------------------ __init__ ------------------------------- *)
Unset == [set |-> FALSE, d |-> EmptyDict]
Dict(d) == [set |-> TRUE, d |-> d]
Call(op, outcome, cols, ret) == [op |-> op, outcome |-> outcome, cols |-> cols, ret |-> ret]

RegressionArgs == {PyBool(TRUE), PyBool(FALSE), PyInt(1)}
CvArgs == {PyBool(TRUE), PyBool(FALSE), PyInt(3)}
Thresholds == {0, 1}
FeatureArgs == {None, Str("a"), List(<<"b">>), List(<<"a", "b">>)}
Estimators == {"None", "custom"}
Scorings == {"neg_mean_squared_error"}

Args(reg, cvv, thr, fts, est, sc) ==
    [regression |-> reg, cv |-> cvv, threshold |-> thr, features_to_shuffle |-> fts,
     estimator |-> est, scoring |-> sc]
NoArgs == Args(PyBool(FALSE), PyBool(FALSE), 0, None, "None", "neg_mean_squared_error")

Init ==
    /\ exists = FALSE
    /\ regression = PyBool(FALSE)
    /\ cv = PyBool(FALSE)
    /\ threshold = 0
    /\ features_to_shuffle = None
    /\ estimator = "None"
    /\ scoring = "neg_mean_squared_error"
    /\ features_performance_drifts_ = Unset
    /\ ctor_args = NoArgs
    /\ fit_completed = FALSE
    /\ perf = EmptyDict
    /\ last = Call("none", "ok", <<>>, <<>>)
    /\ sh = [X |-> NotAFrame, feature |-> "a", order |-> Identity,
             out |-> NotAFrame, applied |-> FALSE]

\* variant: only the regression flag is validated
ConstructRaises_regonly(reg, cvv) == ~IsBool(reg)

ConstructRaises(reg, cvv) == ~IsBool(cvv) \/ ~IsBool(reg)

Construct(reg, cvv, thr, fts, est, sc) ==
    /\ ~exists
    /\ ctor_args' = Args(reg, cvv, thr, fts, est, sc)
    /\ IF ConstructRaises(reg, cvv)
       THEN /\ last' = Call("init", "ValueError", <<>>, <<>>)
            /\ UNCHANGED <<inst, fit_completed, perf, sh>>
       ELSE /\ exists' = TRUE
            /\ features_to_shuffle' = _define_variables(fts)
            /\ estimator' = est
            /\ scoring' = sc
            /\ threshold' = thr
            /\ regression' = reg
            /\ cv' = cvv
            /\ last' = Call("init", "ok", <<>>, <<>>)
            /\ UNCHANGED <<features_performance_drifts_, fit_completed, perf, sh>>

(* -------------------------------- fit ---------------------------------- *)
\* baseline: 1 for a supplied estimator, else the metric of the default model
Baseline(est, reg, y, y_pred) ==
    IF est # "None" THEN Frac(1, 1) ELSE metric(reg, y, y_pred)
BaselineRaises(est, reg, y) == est = "None" /\ metric_raises(reg, y)

\* variant: the drift dict is cleared before the input is validated
FitRejects_cleared ==
    /\ features_performance_drifts_' = Dict(EmptyDict)
    /\ perf' = EmptyDict
    /\ UNCHANGED <<exists, regression, cv, threshold, features_to_shuffle, estimator,
                   scoring, ctor_args, fit_completed, sh>>

\* a validation error propagates out of fit before any attribute is assigned
FitRejects == UNCHANGED <<inst, ghost, sh>>

\* self.features_performance_drifts_ = {} : a new dict, whatever was there
StartDrifts(previous) == EmptyDict

Fit(X, y) ==
    /\ exists
    /\ IF _is_dataframe_raises(X)
       THEN /\ last' = Call("fit", "TypeError", <<>>, <<>>)
            /\ FitRejects
       ELSE IF _find_all_variables_raises(X, features_to_shuffle)
       THEN /\ last' = Call("fit", "MissingFeature", X.columns, <<>>)
            /\ FitRejects
       ELSE LET fts == _find_all_variables(X, features_to_shuffle)
            IN /\ features_to_shuffle' = fts
               /\ IF BaselineRaises(estimator, regression.b, y)
                  THEN /\ last' = Call("fit", "metric_error", X.columns, <<>>)
                       /\ UNCHANGED <<features_performance_drifts_, perf,
                                      fit_completed>>
                  ELSE \E model \in Range(X.columns), strict \in BOOLEAN,
                          orders \in [Range(fts.names) -> Orders] :
                       LET y_pred == predict(model, X)
                           truth == IF metric_raises(regression.b, y) THEN Frac(0, 1)
                                    ELSE metric(regression.b, y, y_pred)
                       IN \E r \in {FitLoop(1, fts.names, X, y, model, orders, strict,
                                             regression.b,
                                             Baseline(estimator, regression.b, y, y_pred),
                                             truth,
                                             StartDrifts(features_performance_drifts_.d),
                                             EmptyDict)} :
                          /\ features_performance_drifts_' = Dict(r.drifts)
                          /\ perf' = [f \in DOMAIN r.drifts |->
                                         IF f \in DOMAIN r.perf THEN r.perf[f]
                                         ELSE perf[f]]
                          /\ fit_completed' = (fit_completed \/ r.outcome = "ok")
                          /\ last' = Call("fit", r.outcome, X.columns, <<>>)
               /\ UNCHANGED <<exists, regression, cv, threshold, estimator, scoring,
                              ctor_args, sh>>

(* ------------------------------ transform ------------------------------ *)
\* variant: exclusive boundaries
columns_to_drop_strict(reg, drifts, thr) ==
    IF reg THEN {f \in DOMAIN drifts : ~FracLeInt(drifts[f], thr)}
    ELSE {f \in DOMAIN drifts : ~FracGeInt(drifts[f], thr)}

columns_to_drop(reg, drifts, thr) ==
    IF reg THEN {f \in DOMAIN drifts : FracGeInt(drifts[f], thr)}
    ELSE {f \in DOMAIN drifts : FracLeInt(drifts[f], thr)}

\* X.drop(columns=...) raises KeyError when a label is not a column of X
drop_raises(X, columns) == ~(columns \subseteq Range(X.columns))
drop(X, columns) == SelectSeq(X.columns, LAMBDA c : c \notin columns)

Transform(X) ==
    /\ exists
    /\ UNCHANGED <<inst, ghost, sh>>
    /\ IF check_is_fitted_raises(features_performance_drifts_)
       THEN last' = Call("transform", "NotFittedError", <<>>, <<>>)
       ELSE IF _is_dataframe_raises(X)
       THEN last' = Call("transform", "TypeError", <<>>, <<>>)
       ELSE LET cols == columns_to_drop(regression.b, features_performance_drifts_.d,
                                        threshold)
            IN IF drop_raises(X, cols)
               THEN last' = Call("transform", "KeyError", X.columns, <<>>)
               ELSE last' = Call("transform", "ok", X.columns, drop(X, cols))

(* ------------------------------ lifecycle ------------------------------ *)
DoConstruct ==
    \E reg \in RegressionArgs, cvv \in CvArgs, thr \in Thresholds,
       fts \in FeatureArgs, est \in Estimators, sc \in Scorings :
        Construct(reg, cvv, thr, fts, est, sc)
DoFit == \E X \in Frames \cup {NotAFrame}, y \in Targets : Fit(X, y)
DoTransform == \E X \in Frames \cup {NotAFrame} : Transform(X)

Next == DoConstruct \/ DoFit \/ DoTransform

Spec == Init /\ [][Next]_vars

(* -------------------- the shuffle step on its own ---------------------- *)
Values == {0, 1}
Labels == 0..NRows
ShuffleFrames == {Frame(<<"a", "b">>, ix, [c \in Cols |-> IF c = "a" THEN d ELSE Ramp]) :
                      ix \in [Rows -> Labels], d \in [Rows -> Values]}

InitShuffle ==
    /\ exists = FALSE
    /\ regression = PyBool(FALSE)
    /\ cv = PyBool(FALSE)
    /\ threshold = 0
    /\ features_to_shuffle = None
    /\ estimator = "None"
    /\ scoring = "neg_mean_squared_error"
    /\ features_performance_drifts_ = Unset
    /\ ctor_args = NoArgs
    /\ fit_completed = FALSE
    /\ perf = EmptyDict
    /\ last = Call("none", "ok", <<>>, <<>>)
    /\ sh \in [X : ShuffleFrames, feature : Cols, order : AllOrders,
                out : {NotAFrame}, applied : {FALSE}]

ApplyShuffle ==
    /\ ~sh.applied
    /\ sh' = [sh EXCEPT !.out = Shuffle(sh.X, sh.feature, sh.order), !.applied = TRUE]
    /\ UNCHANGED <<inst, ghost, last>>

NextShuffle == ApplyShuffle

SpecShuffle == InitShuffle /\ [][NextShuffle]_vars

(* ============================== properties ============================= *)
Drifts == features_performance_drifts_.d
Evaluated == DOMAIN Drifts
TransformReturned == last.op = "transform" /\ last.outcome = "ok"
FitReturned == last.op = "fit" /\ last.outcome = "ok"

\* C1: while no fit call has run to completion, transform fails with the
\* unfitted-state error and returns no dataframe.
C1_TransformNeedsCompletedFit ==
    (last.op = "transform" /\ ~fit_completed) => last.outcome = "NotFittedError"

\* C2: on a fitted instance, transform of a dataframe containing the evaluated
\* features returns the columns of X outside the drop set, in their original
\* order; the drop set is drift >= threshold in regression mode and
\* drift <= threshold otherwise, so a drift equal to the threshold is dropped
\* and a column that was not evaluated is never dropped.
C2_DropSet ==
    IF regression.b
    THEN {f \in Evaluated : Drifts[f].num >= threshold * Drifts[f].den}
    ELSE {f \in Evaluated : Drifts[f].num <= threshold * Drifts[f].den}
C2_TransformDropsByThreshold ==
    (/\ last.op = "transform"
     /\ features_performance_drifts_.set
     /\ last.outcome # "TypeError"
     /\ Evaluated \subseteq Range(last.cols))
    => /\ last.outcome = "ok"
       /\ last.ret = SelectSeq(last.cols, LAMBDA c : c \notin C2_DropSet)
C2_Witness ==
    /\ TransformReturned
    /\ \E f \in Evaluated : /\ Drifts[f].num = threshold * Drifts[f].den
                              /\ f \in Range(last.cols)
                              /\ f \notin Range(last.ret)
    /\ \E c \in Range(last.ret) : c \notin Evaluated

\* C3: after every fit that returns, the keys of the drift mapping are exactly
\* the resolved features_to_shuffle of that fit.
C3_KeysAreResolvedFeatures ==
    FitReturned => /\ features_performance_drifts_.set
                   /\ Evaluated = Range(features_to_shuffle.names)
\* a later fit: the feature list resolved by an earlier fit is narrower than X
C3_Witness ==
    /\ FitReturned
    /\ ctor_args.features_to_shuffle = None
    /\ Evaluated # Range(last.cols)
    /\ Evaluated = Range(features_to_shuffle.names)

\* C4: with features_to_shuffle unspecified at construction, every fit that
\* returns has evaluated all columns of the X passed to that call.
C4_UnspecifiedEvaluatesAllColumns ==
    (FitReturned /\ ctor_args.features_to_shuffle = None)
    => Evaluated = Range(last.cols)

\* C5 (as stated): regression, default estimator, threshold 0: a feature whose
\* shuffling raises the error above the baseline has a positive drift and is
\* kept by transform; a feature whose shuffling leaves it unchanged is dropped.
C5_Case ==
    /\ TransformReturned
    /\ regression.b
    /\ estimator = "None"
    /\ threshold = 0
C5_ImportantPositiveAndKept ==
    C5_Case =>
        \A f \in Evaluated \cap Range(last.cols) :
            /\ FracLt(perf[f].base, perf[f].shuf)
                   => (Drifts[f].num > 0 /\ f \in Range(last.ret))
            /\ FracEq(perf[f].base, perf[f].shuf)
                   => (Drifts[f].num = 0 /\ f \notin Range(last.ret))
\* C5 (amended): the important feature has a negative drift and is kept; the
\* feature with unchanged error has drift 0 and is dropped.
C5_ImportantNegativeAndKept ==
    C5_Case =>
        \A f \in Evaluated \cap Range(last.cols) :
            /\ FracLt(perf[f].base, perf[f].shuf)
                   => (Drifts[f].num < 0 /\ f \in Range(last.ret))
            /\ FracEq(perf[f].base, perf[f].shuf)
                   => (Drifts[f].num = 0 /\ f \notin Range(last.ret))
C5_Witness ==
    /\ C5_Case
    /\ \E f \in Evaluated : FracLt(perf[f].base, perf[f].shuf) /\ f \in Range(last.ret)
    /\ \E f \in Evaluated : /\ FracEq(perf[f].base, perf[f].shuf)
                              /\ f \in Range(last.cols) /\ f \notin Range(last.ret)

C7_IntegerCvAccepted ==
    (last.op = "init" /\ IsBool(ctor_args.regression) /\ ctor_args.cv = PyInt(3))
    => (last.outcome = "ok" /\ exists)

\* C8: a fit or transform call rejected for its input (not a dataframe, or a
\* named feature absent from the columns) leaves every attribute of the
\* instance as it was, the drift mapping and fitted status included.
C8_Rejected(c) ==
    /\ c.op \in {"fit", "transform"}
    /\ c.outcome \in {"TypeError", "MissingFeature", "KeyError"}
C8_RejectedCallChangesNothing ==
    [][C8_Rejected(last') => UNCHANGED inst]_vars
C8_Witness ==
    /\ last.op = "fit"
    /\ last.outcome = "MissingFeature"
    /\ fit_completed
    /\ Evaluated # {}

\* C9: whatever the row labels of X, the shuffled dataset differs from X only
\* in the shuffled column, and that column holds the same multiset of values
\* as in X (no value lost, duplicated or missing).
Count(col, v) == Cardinality({i \in Rows : col[i] = v})
C9_ShuffleIsPermutation ==
    sh.applied =>
        /\ \A c \in Range(sh.X.columns) \ {sh.feature} : sh.out.data[c] = sh.X.data[c]
        /\ sh.out.columns = sh.X.columns
        /\ sh.out.index = sh.X.index
        /\ \A v \in Values \cup Rows \cup {0, NaN} :
               Count(sh.out.data[sh.feature], v) = Count(sh.X.data[sh.feature], v)

\* C10: every stored drift equals the metric of the trained model on the
\* unshuffled dataset minus the same metric on the shuffled dataset, for the
\* default estimator and for a supplied one.
C10_DriftIsBaselineMinusShuffled ==
    FitReturned =>
        \A f \in Evaluated : FracEq(Drifts[f], FracSub(perf[f].base, perf[f].shuf))

====
